---- MODULE Spec2Model ----
(***************************************************************************)
(* The Temporal ETL pipeline of messaging-app-data: ETLWorkflow.run and    *)
(* its four activities (src/workers/etl/worker.py), the loader load_data   *)
(* (src/etl/etl_pipeline.py) and the paginated source API                  *)
(* (src/api/app/main.py), as a state machine.                              *)
(*                                                                         *)
(* Values: ids, dates and amounts are integers (amounts in cents, a        *)
(* timestamp as day * 100 + hour); Python's None is Null.                  *)
(***************************************************************************)
EXTENDS Integers, Sequences, FiniteSets, TLC

\* Python's None, for the integer-valued fields of a record.
Null == -1
\* Python's None, for the string-valued field message_type.
NullType == "<None>"

\* ------------------------------------------------------------- bounds
\* Workflow runs started one after the other in a behaviour of RerunSpec.
MaxRuns == 2
\* Lines of a spill file in a behaviour of TransformSpec.
MaxSpillLines == 3
\* ETL_MAX_HTTP_CONCURRENCY of the environment (max_workers of the pool; 8
\* by default).
MaxWorkers == 2
\* MAX_PAGE_SIZE of the environment (page_size of every request).
PageSize == 4

\* ------------------------------------------------- program constants
\* RetryPolicy(maximum_attempts=3) of extract, transform and load.
MaxAttempts == 3
\* RetryPolicy(maximum_attempts=1) of cleanup.
CleanupMaxAttempts == 1
\* sorted(...)[:10]
TopN == 10
\* ETL_MAX_CHAT_MESSAGE_CHATS
MaxChatMessageChats == 500

Min(a, b) == IF a <= b THEN a ELSE b

\* --------------------------------------------------------- source data
\* Rows the operational API serves.  A user: id.  A chat: id, chat_type.
\* A message: sender_id, chat_id, sent_at, message_type.  An item of
\* /marketplace: seller_id, chat_id, category_id, price, status,
\* created_at, sold_at.  A category: id.  A seller profile: category_ids.
User(i) == [id |-> i]
Chat(i, t) == [id |-> i, chat_type |-> t]
Message(u, c, t, mt) == [sender_id |-> u, chat_id |-> c, sent_at |-> t, message_type |-> mt]
Item(s, c, cat, p, st, cr, so) ==
    [seller_id |-> s, chat_id |-> c, category_id |-> cat, price |-> p,
     status |-> st, created_at |-> cr, sold_at |-> so]
Category(i) == [id |-> i]
Seller(cats) == [category_ids |-> cats]

\* Every endpoint returns no items.
EmptySource ==
    [users |-> <<>>, chats |-> <<>>, messages |-> <<>>,
     marketplace_items |-> <<>>, categories |-> <<>>, sellers |-> <<>>]

\* /users lists only active users: chats and messages with no user listed.
NoUsersSource ==
    [EmptySource EXCEPT !.chats = <<Chat(10, "private")>>,
                        !.messages = <<Message(1, 10, 210, "text")>>]

\* Three users, two chats, five messages served newest first (user 1 writes
\* twice in chat 10), and three items: one sold at 100.00, one active at
\* 25.00, one cancelled at 40.00 with no category.
SmallSource ==
    [users |-> <<User(1), User(2), User(3)>>,
     chats |-> <<Chat(10, "private"), Chat(11, "group")>>,
     messages |-> <<Message(1, 11, 314, "text"), Message(3, 11, 314, "image"),
                    Message(1, 10, 211, "text"), Message(2, 10, 210, "text"),
                    Message(1, 10, 109, "text")>>,
     marketplace_items |-> <<Item(1, 11, 7, 10000, "sold", 3, 4),
                             Item(2, 11, 7, 2500, "active", 3, Null),
                             Item(2, 10, Null, 4000, "cancelled", 2, Null)>>,
     categories |-> <<Category(7)>>,
     sellers |-> <<Seller(<<7>>)>>]

\* One user and eleven sellers with one sold item each: three pages of
\* /marketplace, and more sellers tied on items_sold than top_sellers holds.
ManySellersSource ==
    [EmptySource EXCEPT
        !.users = <<User(1)>>,
        !.marketplace_items =
            [k \in 1..(TopN + 1) |-> Item(k, Null, Null, 500, "sold", 3, 4)]]

Sources == {EmptySource, NoUsersSource, SmallSource, ManySellersSource}

\* ------------------------------------------------------ the source API
\* A fault: a page count rounded down, so that the last, partial page of a
\* resource is never asked for.
TotalPagesRoundedDown(rows) == Len(rows) \div PageSize

\* paginate_query: total_pages = ceil(total / page_size), and page p holds
\* the rows at offset (p - 1) * page_size, at most page_size of them.
TotalPages(rows) == (Len(rows) + PageSize - 1) \div PageSize
PageItems(rows, p) ==
    SubSeq(rows, (p - 1) * PageSize + 1, Min(p * PageSize, Len(rows)))

\* GET /chats/{id}/messages: the messages of one chat.
ChatMessages(src, cid) == SelectSeq(src.messages, LAMBDA m : m.chat_id = cid)

\* ------------------------------------------------------------- extract
\* A fault: the endpoints walked with the messages first.
EndpointsMessagesFirst ==
    <<"messages", "users", "chats", "marketplace_items", "categories", "sellers">>

\* The six global resources, in the order extract_activity walks them.
Endpoints ==
    <<"users", "chats", "messages", "marketplace_items", "categories", "sellers">>

Rows(src, i) == src[Endpoints[i]]

\* _write_line: one {"resource": ..., "data": ...} record per item.
Tag(resource, items) ==
    [k \in 1..Len(items) |-> [resource |-> resource, data |-> items[k]]]

\* The orders in which as_completed can hand over pages 2..total_pages.
ArrivalOrders(rows) ==
    LET later == 2..TotalPages(rows)
    IN {o \in [1..Cardinality(later) -> later] :
            \A p \in later : \E k \in DOMAIN o : o[k] = p}

\* One arrival order per global resource.
Orders(src) ==
    {o \in [DOMAIN Endpoints ->
                UNION {ArrivalOrders(Rows(src, i)) : i \in DOMAIN Endpoints}] :
        \A i \in DOMAIN Endpoints : o[i] \in ArrivalOrders(Rows(src, i))}

\* The request that makes the attempt raise: none (res = 0); the at-th page
\* handed over for the global resource res (at = 1 is page 1), answered with
\* an error status or not at all after the client's retries; or, in the
\* per-chat sweep (res past the last endpoint), the request for the at-th
\* chat, not answered at all, so that session.get itself raises.
NoFault == [res |-> 0, at |-> 0]
SweepFaults(src) ==
    {[res |-> Len(Endpoints) + 1, at |-> k] : k \in DOMAIN src.chats}
Faults(src) ==
    {NoFault} \cup
    UNION {{[res |-> i, at |-> k] :
                k \in 1..(IF TotalPages(Rows(src, i)) > 1
                          THEN TotalPages(Rows(src, i)) ELSE 1)} :
           i \in DOMAIN Endpoints}
    \cup SweepFaults(src)

RECURSIVE PagesLines(_, _, _)
\* The records of the pages ps of one resource, in the order handed over.
PagesLines(resource, rows, ps) ==
    IF ps = <<>> THEN <<>>
    ELSE Tag(resource, PageItems(rows, Head(ps)))
            \o PagesLines(resource, rows, Tail(ps))

RECURSIVE GlobalLines(_, _, _, _)
\* What the loop over the endpoints writes from resource i on: page 1, then
\* the later pages as they complete; a failed request ends the loop.
GlobalLines(src, order, fault, i) ==
    IF i > Len(Endpoints) THEN <<>>
    ELSE LET ps == <<1>> \o order[i]
         IN IF fault.res = i
            THEN PagesLines(Endpoints[i], Rows(src, i), SubSeq(ps, 1, fault.at - 1))
            ELSE PagesLines(Endpoints[i], Rows(src, i), ps)
                    \o GlobalLines(src, order, fault, i + 1)

\* chat_ids: the non-null ids of the chats records written, cut to the
\* first ETL_MAX_CHAT_MESSAGE_CHATS.
ChatIds(lines) ==
    LET chats == SelectSeq(lines, LAMBDA l : l.resource = "chats" /\ l.data.id # Null)
        ids == [k \in 1..Len(chats) |-> chats[k].data.id]
    IN SubSeq(ids, 1, Min(Len(ids), MaxChatMessageChats))

RECURSIVE SweepLines(_, _, _)
\* The per-chat sweep: the messages of each chat as chat_messages records;
\* a chat whose request is answered with an error status (skip) is passed
\* over.
SweepLines(src, ids, skip) ==
    IF ids = <<>> THEN <<>>
    ELSE (IF Head(ids) \in skip THEN <<>>
          ELSE LET rows == ChatMessages(src, Head(ids))
               IN PagesLines("chat_messages", rows,
                             [p \in 1..(IF TotalPages(rows) > 1
                                        THEN TotalPages(rows) ELSE 1) |-> p]))
         \o SweepLines(src, Tail(ids), skip)

\* The health check: a status other than 200 raises a non-retryable
\* ApplicationError; an exception of session.get leaves the activity as it is.
HealthOutcomes == {"200", "500", "error"}
HealthCheck(health) ==
    IF health = "error" THEN "retryable"
    ELSE IF health # "200" THEN "non_retryable"
    ELSE "ok"

\* A fault: the extract that takes an empty spill for a result.
ExtractValidationOff(total_rows) == "ok"

\* total_rows == 0 raises a non-retryable ApplicationError.
ExtractValidation(total_rows) ==
    IF total_rows = 0 THEN "non_retryable" ELSE "ok"

\* One attempt of extract_activity: its outcome, whether it opened (and so
\* truncated) the spill, and the records it wrote.
ExtractAttempt(src, health, order, fault, skip) ==
    IF HealthCheck(health) # "ok"
    THEN [outcome |-> HealthCheck(health),
          error |-> IF health = "error" THEN "health_request_error" ELSE "unhealthy",
          opened |-> FALSE, lines |-> <<>>]
    ELSE LET global == GlobalLines(src, order, fault, 1)
             all == global \o SweepLines(src, ChatIds(global), skip)
         IN IF fault.res \in DOMAIN Endpoints
            THEN [outcome |-> "retryable",
                  error |-> IF fault.at = 1 THEN "page1_error" ELSE "page_error",
                  opened |-> TRUE, lines |-> global]
            ELSE IF fault.res > Len(Endpoints)
            THEN [outcome |-> "retryable", error |-> "sweep_request_error",
                  opened |-> TRUE,
                  lines |-> global \o SweepLines(src,
                                                SubSeq(ChatIds(global), 1, fault.at - 1),
                                                skip)]
            ELSE [outcome |-> ExtractValidation(Len(all)),
                  error |-> IF ExtractValidation(Len(all)) = "ok" THEN "none" ELSE "no_data",
                  opened |-> TRUE, lines |-> all]

\* ----------------------------------------------------------- transform
\* A fault: d.setdefault(k, v) where d[k] = v is meant, so that an entry,
\* once made, is never updated.
PutIfAbsent(d, k, v) ==
    [x \in DOMAIN d \cup {k} |-> IF x \in DOMAIN d THEN d[x] ELSE v]

\* d[k] = v on a dict.
Put(d, k, v) == [x \in DOMAIN d \cup {k} |-> IF x = k THEN v ELSE d[x]]
\* d.get(k, default)
Get(d, k, default) == IF k \in DOMAIN d THEN d[k] ELSE default
\* sent_at[:10] and int(sent_at[11:13]) of an ISO-8601 timestamp.
DateOf(t) == t \div 100
HourOf(t) == t % 100
\* float(data.get('price') or 0)
PriceOrZero(p) == IF p = Null THEN 0 ELSE p
\* sum / count if count > 0 else 0, in cents.
Mean(sum, count) == IF count > 0 THEN sum \div count ELSE 0

\* The aggregators before the first line.
NewAggregators ==
    [user_stats |-> <<>>, chat_stats |-> <<>>, daily_stats |-> <<>>,
     hourly_stats |-> <<>>, message_type_stats |-> <<>>,
     marketplace_stats |-> [total_items |-> 0, active_items |-> 0, sold_items |-> 0,
                            cancelled_items |-> 0, total_revenue |-> 0,
                            sum_price_all |-> 0, count_price_all |-> 0],
     seller_order |-> <<>>, seller_agg |-> <<>>, chat_mkt_agg |-> <<>>,
     daily_marketplace |-> <<>>, sellers_count_per_category |-> <<>>]

\* resource == 'users'
OnUser(g, d) ==
    IF d.id = Null \/ d.id \in DOMAIN g.user_stats THEN g
    ELSE [g EXCEPT !.user_stats =
            Put(@, d.id, [total_messages_sent |-> 0, chat_ids |-> {},
                          last_message_date |-> Null])]

\* resource == 'chats'
OnChat(g, d) ==
    IF d.id = Null THEN g
    ELSE [g EXCEPT !.chat_stats =
            Put(@, d.id, [chat_type |-> d.chat_type, total_messages |-> 0,
                          unique_senders |-> {}, first_message_date |-> Null,
                          last_message_date |-> Null])]

\* data.get('message_type', 'text'): "text" for a record without the key,
\* None for a record whose message_type is null.
MessageType(d) ==
    IF "message_type" \in DOMAIN d THEN d.message_type ELSE "text"

\* resource == 'messages'
OnMessage(g, d) ==
    LET s == d.sender_id
        c == d.chat_id
        t == d.sent_at
        us == g.user_stats
        cs == g.chat_stats
        user_stats ==
            IF s \in DOMAIN us
            THEN Put(us, s,
                     [total_messages_sent |-> us[s].total_messages_sent + 1,
                      chat_ids |-> us[s].chat_ids \cup {c},
                      last_message_date |->
                          IF us[s].last_message_date = Null
                                \/ (t # Null /\ t > us[s].last_message_date)
                          THEN t ELSE us[s].last_message_date])
            ELSE us
        chat_stats ==
            IF c \in DOMAIN cs
            THEN Put(cs, c,
                     [chat_type |-> cs[c].chat_type,
                      total_messages |-> cs[c].total_messages + 1,
                      unique_senders |-> cs[c].unique_senders \cup {s},
                      first_message_date |->
                          IF cs[c].first_message_date = Null
                                \/ (t # Null /\ t < cs[c].first_message_date)
                          THEN t ELSE cs[c].first_message_date,
                      last_message_date |->
                          IF cs[c].last_message_date = Null
                                \/ (t # Null /\ t > cs[c].last_message_date)
                          THEN t ELSE cs[c].last_message_date])
            ELSE cs
        hourly_stats ==
            IF t # Null /\ HourOf(t) \in 0..23
            THEN Put(g.hourly_stats, HourOf(t), Get(g.hourly_stats, HourOf(t), 0) + 1)
            ELSE g.hourly_stats
        entry == Get(g.daily_stats, DateOf(t),
                     [total_messages |-> 0, unique_users |-> {}, unique_chats |-> {},
                      private_messages |-> 0, group_messages |-> 0])
        ctype == IF c \in DOMAIN cs THEN cs[c].chat_type ELSE "private"
        daily_stats ==
            IF t # Null
            THEN Put(g.daily_stats, DateOf(t),
                     [total_messages |-> entry.total_messages + 1,
                      unique_users |-> IF s # Null THEN entry.unique_users \cup {s}
                                       ELSE entry.unique_users,
                      unique_chats |-> IF c # Null THEN entry.unique_chats \cup {c}
                                       ELSE entry.unique_chats,
                      private_messages |->
                          IF c # Null /\ ctype = "private"
                          THEN entry.private_messages + 1 ELSE entry.private_messages,
                      group_messages |->
                          IF c # Null /\ ctype # "private"
                          THEN entry.group_messages + 1 ELSE entry.group_messages])
            ELSE g.daily_stats
    IN [g EXCEPT !.user_stats = user_stats,
                 !.chat_stats = chat_stats,
                 !.hourly_stats = hourly_stats,
                 !.daily_stats = daily_stats,
                 !.message_type_stats =
                     Put(@, MessageType(d), Get(@, MessageType(d), 0) + 1)]

\* A fault: an aggregate kept for an item whatever its key, None included.
HasKeyAlways(k) == TRUE

\* if sid is not None: / if cid is not None:
HasKey(k) == k # Null

\* A fault: the price of an item added to the revenue whatever its status.
SoldValueAnyStatus(st, p) == PriceOrZero(p)

\* if st == 'sold': ... += float(data.get('price') or 0)
SoldValue(st, p) == IF st = "sold" THEN PriceOrZero(p) ELSE 0

\* resource == 'marketplace_items'
OnItem(g, d) ==
    LET st == d.status
        ms == g.marketplace_stats
        sid == d.seller_id
        cid == d.chat_id
        marketplace_stats ==
            [total_items |-> ms.total_items + 1,
             active_items |-> ms.active_items + (IF st = "active" THEN 1 ELSE 0),
             sold_items |-> ms.sold_items + (IF st = "sold" THEN 1 ELSE 0),
             cancelled_items |-> ms.cancelled_items + (IF st = "cancelled" THEN 1 ELSE 0),
             total_revenue |-> ms.total_revenue + SoldValue(st, d.price),
             sum_price_all |-> ms.sum_price_all + PriceOrZero(d.price),
             count_price_all |-> ms.count_price_all + (IF d.price # Null THEN 1 ELSE 0)]
        agg == Get(g.seller_agg, sid,
                   [listed |-> 0, active |-> 0, sold |-> 0, sum_list_price |-> 0,
                    count_list_price |-> 0, sum_sold_value |-> 0])
        seller_agg ==
            IF HasKey(sid)
            THEN Put(g.seller_agg, sid,
                     [listed |-> agg.listed + 1,
                      active |-> agg.active + (IF st = "active" THEN 1 ELSE 0),
                      sold |-> agg.sold + (IF st = "sold" THEN 1 ELSE 0),
                      sum_list_price |-> agg.sum_list_price + PriceOrZero(d.price),
                      count_list_price |->
                          agg.count_list_price + (IF d.price # Null THEN 1 ELSE 0),
                      sum_sold_value |-> agg.sum_sold_value + SoldValue(st, d.price)])
            ELSE g.seller_agg
        seller_order ==
            IF HasKey(sid) /\ sid \notin DOMAIN g.seller_agg
            THEN Append(g.seller_order, sid) ELSE g.seller_order
        cm == Get(g.chat_mkt_agg, cid, [total |-> 0, active |-> 0, sold |-> 0])
        chat_mkt_agg ==
            IF HasKey(cid)
            THEN Put(g.chat_mkt_agg, cid,
                     [total |-> cm.total + 1,
                      active |-> cm.active + (IF st = "active" THEN 1 ELSE 0),
                      sold |-> cm.sold + (IF st = "sold" THEN 1 ELSE 0)])
            ELSE g.chat_mkt_agg
        fresh == [items_listed |-> 0, items_sold |-> 0, sum_price_listed |-> 0,
                  count_price_listed |-> 0]
        listed ==
            IF d.created_at # Null
            THEN LET dm == Get(g.daily_marketplace, d.created_at, fresh)
                 IN Put(g.daily_marketplace, d.created_at,
                        [dm EXCEPT !.items_listed = @ + 1,
                                   !.sum_price_listed = @ + PriceOrZero(d.price),
                                   !.count_price_listed = @ + 1])
            ELSE g.daily_marketplace
        daily_marketplace ==
            IF d.sold_at # Null
            THEN LET dm == Get(listed, d.sold_at, fresh)
                 IN Put(listed, d.sold_at, [dm EXCEPT !.items_sold = @ + 1])
            ELSE listed
    IN [g EXCEPT !.marketplace_stats = marketplace_stats,
                 !.seller_agg = seller_agg,
                 !.seller_order = seller_order,
                 !.chat_mkt_agg = chat_mkt_agg,
                 !.daily_marketplace = daily_marketplace]

RECURSIVE CountCategories(_, _)
\* resource == 'sellers': one more seller for every id of category_ids.
CountCategories(counts, ids) ==
    IF ids = <<>> THEN counts
    ELSE CountCategories(Put(counts, Head(ids), Get(counts, Head(ids), 0) + 1),
                         Tail(ids))

OnSeller(g, d) ==
    [g EXCEPT !.sellers_count_per_category = CountCategories(@, d.category_ids)]

\* A fault: a dispatch that counts the records of the per-chat sweep as
\* messages, so that a message written twice is counted twice.
OnLineCountingSweep(g, line) ==
    CASE line.resource = "users" -> OnUser(g, line.data)
      [] line.resource = "chats" -> OnChat(g, line.data)
      [] line.resource \in {"messages", "chat_messages"} -> OnMessage(g, line.data)
      [] line.resource = "marketplace_items" -> OnItem(g, line.data)
      [] line.resource = "sellers" -> OnSeller(g, line.data)
      [] OTHER -> g

\* The dispatch on the resource of one line; categories records only name
\* categories, and chat_messages records feed no aggregator.
OnLine(g, line) ==
    CASE line.resource = "users" -> OnUser(g, line.data)
      [] line.resource = "chats" -> OnChat(g, line.data)
      [] line.resource = "messages" -> OnMessage(g, line.data)
      [] line.resource = "marketplace_items" -> OnItem(g, line.data)
      [] line.resource = "sellers" -> OnSeller(g, line.data)
      [] OTHER -> g

\* A line of the spill is a {resource, data} record, as _write_line writes
\* it, or [text |-> ...], text that json.loads rejects, or [json |-> ...],
\* a JSON document that is not an object (only its type is kept).
LineKind(line) ==
    IF "text" \in DOMAIN line THEN "not_json"
    ELSE IF "json" \in DOMAIN line THEN "not_object"
    ELSE "record"

\* try: rec = json.loads(line) except Exception: continue
Scanned(lines) == SelectSeq(lines, LAMBDA l : LineKind(l) # "not_json")

\* rec.get('resource') raises AttributeError unless rec is a dict.
ScanRaises(lines) == \E k \in DOMAIN lines : LineKind(lines[k]) = "not_object"

RECURSIVE Aggregate(_, _)
\* for line in f: the aggregators after one line are the aggregators the
\* next line updates.
Aggregate(g, lines) ==
    IF lines = <<>> THEN g
    ELSE CHOOSE r \in {Aggregate(h, Tail(lines)) : h \in {OnLine(g, Head(lines))}} : TRUE

\* sorted(rows, key=items_sold, reverse=True): stable, so rows with equal
\* items_sold keep the order they had.
SortedBySold(rows) ==
    LET Before(j, k) ==
            \/ rows[j].items_sold > rows[k].items_sold
            \/ rows[j].items_sold = rows[k].items_sold /\ j < k
        Place(k) == Cardinality({j \in DOMAIN rows : Before(j, k)}) + 1
    IN [p \in DOMAIN rows |-> rows[CHOOSE k \in DOMAIN rows : Place(k) = p]]

\* top_sellers_list: the first ten of the sellers sorted by items_sold.
TopSellers(g) ==
    LET rows == [k \in 1..Len(g.seller_order) |->
                    [seller_id |-> g.seller_order[k],
                     items_sold |-> g.seller_agg[g.seller_order[k]].sold,
                     total_revenue |-> g.seller_agg[g.seller_order[k]].sum_sold_value]]
    IN CHOOSE top \in {SubSeq(sorted, 1, Min(Len(sorted), TopN)) :
                          sorted \in {SortedBySold(r) : r \in {rows}}} : TRUE

\* The transformed JSON: one set of rows per aggregate array (top_sellers a
\* list inside marketplace_statistics).
Finalize(g) ==
    [user_statistics |->
        {[user_id |-> u,
          total_messages_sent |-> g.user_stats[u].total_messages_sent,
          chats_participated |-> Cardinality(g.user_stats[u].chat_ids),
          last_message_date |-> g.user_stats[u].last_message_date] :
            u \in DOMAIN g.user_stats},
     chat_statistics |->
        {[chat_id |-> c,
          chat_type |-> g.chat_stats[c].chat_type,
          total_messages |-> g.chat_stats[c].total_messages,
          unique_senders |-> Cardinality(g.chat_stats[c].unique_senders),
          first_message_date |-> g.chat_stats[c].first_message_date,
          last_message_date |-> g.chat_stats[c].last_message_date] :
            c \in DOMAIN g.chat_stats},
     daily_message_stats |->
        {[date |-> d,
          total_messages |-> g.daily_stats[d].total_messages,
          unique_users |-> Cardinality(g.daily_stats[d].unique_users),
          unique_chats |-> Cardinality(g.daily_stats[d].unique_chats),
          private_messages |-> g.daily_stats[d].private_messages,
          group_messages |-> g.daily_stats[d].group_messages] :
            d \in DOMAIN g.daily_stats},
     message_type_summary |->
        {[message_type |-> t, total_count |-> g.message_type_stats[t]] :
            t \in DOMAIN g.message_type_stats},
     hourly_message_stats |->
        {[hour |-> h, total_messages |-> g.hourly_stats[h]] :
            h \in DOMAIN g.hourly_stats},
     weekday_message_stats |-> {},
     marketplace_statistics |->
        [total_items |-> g.marketplace_stats.total_items,
         active_items |-> g.marketplace_stats.active_items,
         sold_items |-> g.marketplace_stats.sold_items,
         cancelled_items |-> g.marketplace_stats.cancelled_items,
         total_revenue |-> g.marketplace_stats.total_revenue,
         average_price |-> Mean(g.marketplace_stats.sum_price_all,
                                g.marketplace_stats.count_price_all),
         top_sellers |-> TopSellers(g)],
     category_statistics |-> {},
     seller_statistics |->
        {[seller_id |-> s,
          total_items_listed |-> g.seller_agg[s].listed,
          active_items |-> g.seller_agg[s].active,
          sold_items |-> g.seller_agg[s].sold,
          avg_listing_price |-> Mean(g.seller_agg[s].sum_list_price,
                                     g.seller_agg[s].count_list_price),
          total_listed_value |-> g.seller_agg[s].sum_list_price,
          total_sold_value |-> g.seller_agg[s].sum_sold_value] :
            s \in DOMAIN g.seller_agg},
     chat_marketplace_stats |->
        {[chat_id |-> c,
          total_items |-> g.chat_mkt_agg[c].total,
          active_items |-> g.chat_mkt_agg[c].active,
          sold_items |-> g.chat_mkt_agg[c].sold] :
            c \in DOMAIN g.chat_mkt_agg},
     daily_marketplace_stats |->
        {[date |-> d,
          items_listed |-> g.daily_marketplace[d].items_listed,
          items_sold |-> g.daily_marketplace[d].items_sold,
          avg_listing_price |-> Mean(g.daily_marketplace[d].sum_price_listed,
                                     g.daily_marketplace[d].count_price_listed)] :
            d \in DOMAIN g.daily_marketplace},
     seller_category_stats |->
        {[category_id |-> c, sellers_count |-> g.sellers_count_per_category[c]] :
            c \in DOMAIN g.sellers_count_per_category}]

\* out.get('user_statistics') empty raises a non-retryable ApplicationError,
\* after _write_json has written the output.
TransformValidation(out) ==
    IF out.user_statistics = {} THEN "non_retryable" ELSE "ok"

\* sorted(message_type_stats.items()) compares the keys: None and a string
\* cannot be compared, and the TypeError leaves the activity.
SortRaises(g) ==
    /\ NullType \in DOMAIN g.message_type_stats
    /\ DOMAIN g.message_type_stats # {NullType}

\* The output of one pass of transform_activity over a spill in which no
\* line makes it raise.
Transform(lines) ==
    CHOOSE out \in {Finalize(g) : g \in {Aggregate(NewAggregators, Scanned(lines))}} : TRUE

\* What an attempt does once the scan is over: it raises in the sort, or it
\* writes its output and validates it.
AfterScan(g) ==
    IF SortRaises(g)
    THEN [outcome |-> "retryable", error |-> "type_error", written |-> FALSE,
          out |-> <<>>]
    ELSE CHOOSE r \in {[outcome |-> TransformValidation(out),
                        error |-> IF TransformValidation(out) = "ok"
                                  THEN "none" ELSE "output_empty",
                        written |-> TRUE, out |-> out] : out \in {Finalize(g)}} : TRUE

\* One attempt of transform_activity: its outcome, whether it wrote the
\* transformed file, and what it wrote.
TransformAttempt(lines) ==
    IF ScanRaises(lines)
    THEN [outcome |-> "retryable", error |-> "attribute_error", written |-> FALSE,
          out |-> <<>>]
    ELSE CHOOSE r \in {AfterScan(g) :
                          g \in {Aggregate(NewAggregators, Scanned(lines))}} : TRUE

\* ---------------------------------------------------------------- load
\* The tables load_data upserts, each with its primary key.
PrimaryKey ==
    [user_statistics |-> "user_id", chat_statistics |-> "chat_id",
     daily_message_stats |-> "date", message_type_summary |-> "message_type",
     hourly_message_stats |-> "hour", weekday_message_stats |-> "weekday",
     top_sellers |-> "seller_id", category_statistics |-> "category_id",
     seller_statistics |-> "seller_id", chat_marketplace_stats |-> "chat_id",
     daily_marketplace_stats |-> "date", seller_category_stats |-> "category_id"]
UpsertedTables == DOMAIN PrimaryKey

\* The analytics database after create_analytics_tables on a fresh server:
\* every table empty; marketplace_statistics and etl_runs keep their rows in
\* the order of their serial ids.
EmptyDb ==
    [t \in UpsertedTables \cup {"marketplace_statistics", "etl_runs"} |->
        IF t \in UpsertedTables THEN {} ELSE <<>>]

\* INSERT ... ON CONFLICT (pk) DO UPDATE SET every other column = EXCLUDED.
Upsert(table, rows, pk) ==
    {r \in table : \A n \in rows : n[pk] # r[pk]} \cup rows

\* The rows load_data sends for one table.
RowsFor(out, t) ==
    IF t = "top_sellers"
    THEN {out.marketplace_statistics.top_sellers[k] :
            k \in DOMAIN out.marketplace_statistics.top_sellers}
    ELSE out[t]

\* INSERT INTO marketplace_statistics: a new row, whatever the table holds.
MarketplaceRow(out) ==
    [f \in DOMAIN out.marketplace_statistics \ {"top_sellers"} |->
        out.marketplace_statistics[f]]
InsertMarketplace(rows, out) == Append(rows, MarketplaceRow(out))

\* Every statement load_data executes before its first commit.
ApplyUpserts(d, out) ==
    [t \in DOMAIN d |->
        IF t \in UpsertedTables THEN Upsert(d[t], RowsFor(out, t), PrimaryKey[t])
        ELSE IF t = "marketplace_statistics" THEN InsertMarketplace(d[t], out)
        ELSE d[t]]

\* INSERT INTO etl_runs (..., status, ...) with run_status = "success".
RecordRun(d) == [d EXCEPT !.etl_runs = Append(@, [status |-> "success"])]

\* The upserted tables of a database.
Upserted(d) == [t \in UpsertedTables |-> d[t]]

\* The content of the transformed file is a JSON object, a record with one
\* field per key (<<>> is the empty object), or [json |-> ...], a JSON
\* document that is not an object.
\* load_activity: not isinstance(transformed, dict) or not transformed
\* raises a non-retryable ApplicationError.
LoadValidation(content) ==
    IF "json" \in DOMAIN content \/ DOMAIN content = {}
    THEN "non_retryable" ELSE "ok"

\* The keys load_data reads with transformed_data[...]; the others it reads
\* with .get and a default.
RequiredArrays ==
    {"user_statistics", "chat_statistics", "daily_message_stats",
     "message_type_summary", "hourly_message_stats", "weekday_message_stats"}

\* transformed_data[key] raises KeyError for a key the object lacks.
LoadRaisesKeyError(content) == ~(RequiredArrays \subseteq DOMAIN content)

\* ------------------------------------------------------------ workflow
Activities == {"extract", "transform", "load", "cleanup"}

VARIABLES
    source,           \* what the operational API serves
    run,              \* the number of the workflow run (its run_id)
    pc,               \* where ETLWorkflow.run stands
    status,           \* per activity: none, running, retrying, ok, failed
    hist,             \* per activity: the error of every attempt that ended
    raw_path,         \* the workflow's raw_path: 0 is None, else the run_id
    transformed_path, \* the workflow's transformed_path, likewise
    outcome,          \* none, completed, failed
    error,            \* the activity error the run fails with
    rawFile,          \* /tmp/etl-{run}-raw.ndjson: <<>> or <<lines>>
    transformedFile,  \* /tmp/etl-{run}-transformed.json: <<>> or <<out>>
    db,               \* the committed state of the analytics database
    tx,               \* the open connection's uncommitted view: <<>> or <<d>>
    loadPc,           \* where load_data stands
    dbAtRun,          \* history: db when the run started
    sourceAtRun,      \* history: what the API served when the run started
    dbAtLoad,         \* history: db when the run's first load attempt started
    dbAtAttempt,      \* history: db when the current load attempt started
    prev,             \* history: the run before this one
    deleteFailed,     \* history: cleanup left a file it was given
    fetch             \* the requests and the pool of an attempt of extract

vars ==
    <<source, run, pc, status, hist, raw_path, transformed_path, outcome, error,
      rawFile, transformedFile, db, tx, loadPc, dbAtRun, sourceAtRun, dbAtLoad,
      dbAtAttempt, prev, deleteFailed, fetch>>

\* An attempt of extract seen request by request: where the loop stands
\* (phase, and target, the endpoint or chat it is at), the pages submitted
\* to the pool and not started (queued), the requests in flight, the pages
\* fetched and not yet handed over by as_completed (done), the records
\* written, and the threads that wrote them.  Where the attempt is taken as
\* one step, fetch stays NoFetch.
NoFetch ==
    [phase |-> "off", target |-> 0, queued |-> {}, inflight |-> {}, done |-> {},
     lines |-> <<>>, writers |-> {}]

NoError == [activity |-> "none", error |-> "none"]
NoRun == [completed |-> FALSE, source |-> EmptySource, tables |-> Upserted(EmptyDb)]

\* No run started yet, the analytics database fresh.
Init ==
    /\ source \in Sources
    /\ run = 0
    /\ pc = "idle"
    /\ status = [a \in Activities |-> "none"]
    /\ hist = [a \in Activities |-> <<>>]
    /\ raw_path = 0
    /\ transformed_path = 0
    /\ outcome = "none"
    /\ error = NoError
    /\ rawFile = <<>>
    /\ transformedFile = <<>>
    /\ db = EmptyDb
    /\ tx = <<>>
    /\ loadPc = "none"
    /\ dbAtRun = EmptyDb
    /\ sourceAtRun = source
    /\ dbAtLoad = EmptyDb
    /\ dbAtAttempt = EmptyDb
    /\ prev = NoRun
    /\ deleteFailed = FALSE
    /\ fetch = NoFetch

\* A fault: a retry policy that overlooks the non-retryable marker.
MayRetryAnyError(result, attempt) == attempt < MaxAttempts

\* A fault: a retry policy that counts retries where it should count attempts.
MayRetryOnceMore(result, attempt) == result = "retryable" /\ attempt <= MaxAttempts

\* RetryPolicy(maximum_attempts=3): an attempt that failed is followed by
\* another unless its error is non-retryable or it was the third.
MayRetry(result, attempt) == result = "retryable" /\ attempt < MaxAttempts

\* A fault: an activity scheduled without awaiting the one before it.
CanStartEarly(a) == status[a] \in {"none", "retrying"}

\* await workflow.execute_activity(a, ...): the workflow schedules a once it
\* stands at a, and an attempt only when none is in progress.
CanStart(a) == pc = a /\ status[a] \in {"none", "retrying"}

\* The statement after the await of activity a.
NextStage(a) ==
    CASE a = "extract" -> "transform"
      [] a = "transform" -> "load"
      [] a = "load" -> "finally"

\* An attempt of extract, transform or load ends: the await returns, the
\* orchestrator retries, or the await raises the activity's error and the
\* workflow leaves the try block.
Finish(a, result, err) ==
    /\ hist' = [hist EXCEPT ![a] = Append(@, err)]
    /\ IF result = "ok"
       THEN /\ status' = [status EXCEPT ![a] = "ok"]
            /\ pc' = NextStage(a)
            /\ outcome' = IF a = "load" THEN "completed" ELSE outcome
            /\ error' = error
       ELSE IF MayRetry(result, Len(hist[a]) + 1)
       THEN /\ status' = [status EXCEPT ![a] = "retrying"]
            /\ UNCHANGED <<pc, outcome, error>>
       ELSE /\ status' = [status EXCEPT ![a] = "failed"]
            /\ pc' = "finally"
            /\ outcome' = "failed"
            /\ error' = [activity |-> a, error |-> err]

\* A run begins: a new run_id, whose files do not exist yet.
Begin ==
    /\ run' = run + 1
    /\ pc' = "extract"
    /\ status' = [a \in Activities |-> "none"]
    /\ hist' = [a \in Activities |-> <<>>]
    /\ raw_path' = 0
    /\ transformed_path' = 0
    /\ outcome' = "none"
    /\ error' = NoError
    /\ rawFile' = <<>>
    /\ transformedFile' = <<>>
    /\ dbAtRun' = db
    /\ sourceAtRun' = source
    /\ prev' = [completed |-> outcome = "completed", source |-> sourceAtRun,
                tables |-> Upserted(db)]
    /\ deleteFailed' = FALSE
    /\ UNCHANGED <<fetch, source, db, tx, loadPc, dbAtLoad, dbAtAttempt>>

\* The trigger starts the workflow.
StartRun == pc = "idle" /\ Begin

\* The trigger starts the workflow again once the run before has ended.
StartNextRun == pc = "done" /\ run < MaxRuns /\ Begin

\* The operational data changes between two runs.
SourceChanges ==
    /\ pc = "done"
    /\ run < MaxRuns
    /\ \E s \in Sources \ {source} : source' = s
    /\ UNCHANGED <<fetch, run, pc, status, hist, raw_path, transformed_path, outcome,
                   error, rawFile, transformedFile, db, tx, loadPc, dbAtRun, sourceAtRun,
                   dbAtLoad, dbAtAttempt, prev, deleteFailed>>

StartExtract ==
    /\ CanStart("extract")
    /\ status' = [status EXCEPT !["extract"] = "running"]
    /\ UNCHANGED <<fetch, source, run, pc, hist, raw_path, transformed_path, outcome,
                   error, rawFile, transformedFile, db, tx, loadPc, dbAtRun, sourceAtRun,
                   dbAtLoad, dbAtAttempt, prev, deleteFailed>>

\* The chats whose per-chat request can fail.
SourceChatIds(src) == {src.chats[k].id : k \in DOMAIN src.chats}

\* A fault: the spill opened for appending, so that an attempt writes after
\* what the attempts before it left.
OpenForAppending(file, lines) ==
    IF file = <<>> THEN <<lines>> ELSE <<file[1] \o lines>>

\* open(ndjson_path, "w"): the file is created or truncated, and holds what
\* the attempt writes.
OpenForWriting(file, lines) == <<lines>>

\* An attempt of extract_activity runs to its end, the /health request and
\* the page requests answered as healths, faults and skips allow.
ExtractEnds(healths, faults, skips) ==
    /\ status["extract"] = "running"
    /\ \E health \in healths, order \in Orders(source), fault \in faults,
          skip \in skips :
            LET r == ExtractAttempt(source, health, order, fault, skip)
            IN /\ rawFile' = IF r.opened THEN OpenForWriting(rawFile, r.lines)
                            ELSE rawFile
               /\ raw_path' = IF r.outcome = "ok" THEN run ELSE raw_path
               /\ Finish("extract", r.outcome, r.error)
    /\ UNCHANGED <<fetch, source, run, transformed_path, transformedFile, db, tx, loadPc,
                   dbAtRun, sourceAtRun, dbAtLoad, dbAtAttempt, prev, deleteFailed>>

EndExtract ==
    ExtractEnds(HealthOutcomes, Faults(source), SUBSET SourceChatIds(source))

StartTransform ==
    /\ CanStart("transform")
    /\ status' = [status EXCEPT !["transform"] = "running"]
    /\ UNCHANGED <<fetch, source, run, pc, hist, raw_path, transformed_path, outcome,
                   error, rawFile, transformedFile, db, tx, loadPc, dbAtRun, sourceAtRun,
                   dbAtLoad, dbAtAttempt, prev, deleteFailed>>

\* An attempt of transform_activity reads the spill and raises, or writes
\* its output and then validates it.
TransformRuns ==
    /\ status["transform"] = "running"
    /\ raw_path # 0
    /\ rawFile # <<>>
    /\ \E r \in {TransformAttempt(rawFile[1])} :
          /\ transformedFile' = IF r.written THEN <<r.out>> ELSE transformedFile
          /\ transformed_path' = IF r.outcome = "ok" THEN raw_path ELSE transformed_path
          /\ Finish("transform", r.outcome, r.error)
    /\ UNCHANGED <<fetch, source, run, raw_path, rawFile, db, tx, loadPc, dbAtRun, sourceAtRun,
                   dbAtLoad, dbAtAttempt, prev, deleteFailed>>

\* An attempt of transform_activity fails before it writes: open(raw_path)
\* raises, or the attempt times out.
TransformFails ==
    /\ status["transform"] = "running"
    /\ Finish("transform", "retryable", "read_error")
    /\ UNCHANGED <<fetch, source, run, raw_path, transformed_path, rawFile,
                   transformedFile, db, tx, loadPc, dbAtRun, sourceAtRun, dbAtLoad, dbAtAttempt,
                   prev, deleteFailed>>

StartLoad ==
    /\ CanStart("load")
    /\ status' = [status EXCEPT !["load"] = "running"]
    /\ loadPc' = "upsert"
    /\ dbAtLoad' = IF hist["load"] = <<>> THEN db ELSE dbAtLoad
    /\ dbAtAttempt' = db
    /\ UNCHANGED <<fetch, source, run, pc, hist, raw_path, transformed_path, outcome,
                   error, rawFile, transformedFile, db, tx, dbAtRun, sourceAtRun, prev,
                   deleteFailed>>

\* load_activity reads the transformed file; load_data connects, creates the
\* tables and executes every upsert and the marketplace_statistics insert
\* on its connection.
LoadUpserts ==
    /\ status["load"] = "running"
    /\ loadPc = "upsert"
    /\ transformed_path # 0
    /\ transformedFile # <<>>
    /\ LoadValidation(transformedFile[1]) = "ok"
    /\ ~LoadRaisesKeyError(transformedFile[1])
    /\ tx' = <<ApplyUpserts(db, transformedFile[1])>>
    /\ loadPc' = "commit"
    /\ UNCHANGED <<fetch, source, run, pc, status, hist, raw_path, transformed_path,
                   outcome, error, rawFile, transformedFile, db, dbAtRun, sourceAtRun, dbAtLoad,
                   dbAtAttempt, prev, deleteFailed>>

\* load_activity reads a transformed file that is no object or an empty
\* one, and raises before it calls load_data.
LoadRejects ==
    /\ status["load"] = "running"
    /\ loadPc = "upsert"
    /\ transformed_path # 0
    /\ transformedFile # <<>>
    /\ LoadValidation(transformedFile[1]) # "ok"
    /\ tx' = <<>>
    /\ loadPc' = "none"
    /\ Finish("load", LoadValidation(transformedFile[1]), "transformed_missing")
    /\ UNCHANGED <<fetch, source, run, raw_path, transformed_path, rawFile,
                   transformedFile, db, dbAtRun, sourceAtRun, dbAtLoad, dbAtAttempt, prev,
                   deleteFailed>>

\* load_data connects, creates the tables and raises KeyError where it
\* reads an array the object lacks; what it executed before is not
\* committed.
LoadKeyError ==
    /\ status["load"] = "running"
    /\ loadPc = "upsert"
    /\ transformed_path # 0
    /\ transformedFile # <<>>
    /\ LoadValidation(transformedFile[1]) = "ok"
    /\ LoadRaisesKeyError(transformedFile[1])
    /\ tx' = <<>>
    /\ loadPc' = "none"
    /\ Finish("load", "retryable", "key_error")
    /\ UNCHANGED <<fetch, source, run, raw_path, transformed_path, rawFile,
                   transformedFile, db, dbAtRun, sourceAtRun, dbAtLoad, dbAtAttempt, prev,
                   deleteFailed>>

\* conn.commit() after the last upsert.
LoadCommit ==
    /\ status["load"] = "running"
    /\ loadPc = "commit"
    /\ db' = tx[1]
    /\ loadPc' = "record"
    /\ UNCHANGED <<fetch, source, run, pc, status, hist, raw_path, transformed_path,
                   outcome, error, rawFile, transformedFile, tx, dbAtRun, sourceAtRun, dbAtLoad,
                   dbAtAttempt, prev, deleteFailed>>

\* The etl_runs insert and its commit, inside try/except: the row is
\* committed, or the exception is printed and load_data goes on.
RecordRunEnds(results) ==
    /\ status["load"] = "running"
    /\ loadPc = "record"
    /\ \E inserted \in results :
          /\ db' = IF inserted THEN RecordRun(db) ELSE db
          /\ tx' = <<db'>>
    /\ loadPc' = "close"
    /\ UNCHANGED <<fetch, source, run, pc, status, hist, raw_path, transformed_path,
                   outcome, error, rawFile, transformedFile, dbAtRun, sourceAtRun, dbAtLoad,
                   dbAtAttempt, prev, deleteFailed>>

LoadRecordRun == RecordRunEnds(BOOLEAN)

\* cursor.close(), conn.close(), and load_activity returns "loaded".
LoadReturn ==
    /\ status["load"] = "running"
    /\ loadPc = "close"
    /\ tx' = <<>>
    /\ loadPc' = "none"
    /\ Finish("load", "ok", "none")
    /\ UNCHANGED <<fetch, source, run, raw_path, transformed_path, rawFile,
                   transformedFile, db, dbAtRun, sourceAtRun, dbAtLoad, dbAtAttempt, prev,
                   deleteFailed>>

\* An attempt of load_activity fails: a statement or the connection raises,
\* or the attempt is lost (start_to_close or heartbeat timeout, worker gone)
\* wherever load_data stands.  The connection goes with it, and what it had
\* not committed is rolled back.
LoadFails ==
    /\ status["load"] = "running"
    /\ tx' = <<>>
    /\ loadPc' = "none"
    /\ Finish("load", "retryable",
              IF loadPc \in {"upsert", "commit"} THEN "db_error" ELSE "interrupted")
    /\ UNCHANGED <<fetch, source, run, raw_path, transformed_path, rawFile,
                   transformedFile, db, dbAtRun, sourceAtRun, dbAtLoad, dbAtAttempt, prev,
                   deleteFailed>>

\* paths = [p for p in [raw_path, transformed_path] if p]
CleanupPaths(rp, tp) ==
    {k \in {"raw", "transformed"} : IF k = "raw" THEN rp # 0 ELSE tp # 0}

\* The files among paths that os.path.exists finds.
Existing(paths) ==
    {k \in paths : IF k = "raw" THEN rawFile # <<>> ELSE transformedFile # <<>>}

\* finally: with no path to clean up, no cleanup activity is scheduled.
SkipCleanup ==
    /\ pc = "finally"
    /\ CleanupPaths(raw_path, transformed_path) = {}
    /\ pc' = "done"
    /\ UNCHANGED <<fetch, source, run, status, hist, raw_path, transformed_path, outcome,
                   error, rawFile, transformedFile, db, tx, loadPc, dbAtRun, sourceAtRun,
                   dbAtLoad, dbAtAttempt, prev, deleteFailed>>

StartCleanup ==
    /\ pc = "finally"
    /\ CleanupPaths(raw_path, transformed_path) # {}
    /\ status["cleanup"] = "none"
    /\ status' = [status EXCEPT !["cleanup"] = "running"]
    /\ UNCHANGED <<fetch, source, run, pc, hist, raw_path, transformed_path, outcome,
                   error, rawFile, transformedFile, db, tx, loadPc, dbAtRun, sourceAtRun,
                   dbAtLoad, dbAtAttempt, prev, deleteFailed>>

\* A fault: a failure of cleanup_activity raised out of the finally block,
\* replacing what the try block left.
RaiseCleanupError(ok, left) ==
    IF ok THEN left
    ELSE [outcome |-> "failed",
          error |-> [activity |-> "cleanup", error |-> "cleanup_error"]]

\* except Exception: pass around the cleanup activity: whatever the
\* activity did, the value returned or the error raised by the try block
\* stands.
SwallowCleanupError(ok, left) == left

\* cleanup_activity: os.remove on each path that exists, an error of it
\* swallowed; the activity is attempted once and its failure is swallowed
\* by the workflow.  removals: the sets of files the attempt may remove;
\* results: whether the activity may succeed, fail, or either.
CleanupEnds(removals, results) ==
    /\ status["cleanup"] = "running"
    /\ \E removed \in removals, ok \in results :
          /\ rawFile' = IF "raw" \in removed THEN <<>> ELSE rawFile
          /\ transformedFile' =
                IF "transformed" \in removed THEN <<>> ELSE transformedFile
          /\ deleteFailed' =
                (removed # Existing(CleanupPaths(raw_path, transformed_path)))
          /\ status' = [status EXCEPT !["cleanup"] = IF ok THEN "ok" ELSE "failed"]
          /\ hist' = [hist EXCEPT !["cleanup"] =
                        Append(@, IF ok THEN "none" ELSE "cleanup_error")]
          /\ \E after \in {SwallowCleanupError(ok, [outcome |-> outcome,
                                                     error |-> error])} :
                /\ outcome' = after.outcome
                /\ error' = after.error
    /\ pc' = "done"
    /\ UNCHANGED <<fetch, source, run, raw_path, transformed_path, db, tx,
                   loadPc, dbAtRun, sourceAtRun, dbAtLoad, dbAtAttempt, prev>>

EndCleanup ==
    CleanupEnds(SUBSET Existing(CleanupPaths(raw_path, transformed_path)), BOOLEAN)

\* One workflow run, every request, statement and attempt free to fail.
Next ==
    \/ StartRun
    \/ StartExtract
    \/ EndExtract
    \/ StartTransform
    \/ TransformRuns
    \/ TransformFails
    \/ StartLoad
    \/ LoadUpserts
    \/ LoadCommit
    \/ LoadRecordRun
    \/ LoadReturn
    \/ LoadFails
    \/ SkipCleanup
    \/ StartCleanup
    \/ EndCleanup

Spec == Init /\ [][Next]_vars

\* An attempt that was started ends, and the orchestrator and the workflow
\* take their next step.
FairSpec == Spec /\ WF_vars(Next)

\* Runs one after the other, the source free to change in between, with
\* nothing failing: every request answered, every statement executed,
\* every file removed.
RerunNext ==
    \/ StartRun
    \/ StartNextRun
    \/ SourceChanges
    \/ StartExtract
    \/ ExtractEnds({"200"}, {NoFault}, {{}})
    \/ StartTransform
    \/ TransformRuns
    \/ StartLoad
    \/ LoadUpserts
    \/ LoadCommit
    \/ RecordRunEnds({TRUE})
    \/ LoadReturn
    \/ SkipCleanup
    \/ StartCleanup
    \/ CleanupEnds({Existing(CleanupPaths(raw_path, transformed_path))}, {TRUE})

RerunSpec == Init /\ [][RerunNext]_vars

\* ------------------------------------------- transform_activity alone
\* The lines a spill file may hold: the records of a user and of messages
\* with a type, with a null type and with no type, text that is no JSON,
\* and a JSON array.
SpillLines ==
    {[resource |-> "users", data |-> User(1)],
     [resource |-> "messages", data |-> Message(1, 10, 210, "text")],
     [resource |-> "messages", data |-> Message(1, 10, 211, NullType)],
     [resource |-> "messages", data |-> [sender_id |-> 1, chat_id |-> 10, sent_at |-> 212]],
     [text |-> "{"],
     [json |-> "array"]}

SpillFiles == UNION {[1..n -> SpillLines] : n \in 0..MaxSpillLines}

\* The workflow stands before transform, extract having returned, with any
\* of the files as the spill.
TransformInit ==
    /\ source = EmptySource
    /\ run = 1
    /\ pc = "transform"
    /\ status = [a \in Activities |-> IF a = "extract" THEN "ok" ELSE "none"]
    /\ hist = [a \in Activities |-> IF a = "extract" THEN <<"none">> ELSE <<>>]
    /\ raw_path = 1
    /\ transformed_path = 0
    /\ outcome = "none"
    /\ error = NoError
    /\ rawFile \in {<<lines>> : lines \in SpillFiles}
    /\ transformedFile = <<>>
    /\ db = EmptyDb
    /\ tx = <<>>
    /\ loadPc = "none"
    /\ dbAtRun = EmptyDb
    /\ sourceAtRun = EmptySource
    /\ dbAtLoad = EmptyDb
    /\ dbAtAttempt = EmptyDb
    /\ prev = NoRun
    /\ deleteFailed = FALSE
    /\ fetch = NoFetch

TransformNext ==
    \/ StartTransform
    \/ TransformRuns

TransformSpec == TransformInit /\ [][TransformNext]_vars

\* ------------------------------------------------ load_activity alone
\* A spill of one user and one message of that user.
TinySpill ==
    Tag("users", <<User(1)>>) \o Tag("messages", <<Message(1, 10, 210, "text")>>)

Without(content, key) == [k \in DOMAIN content \ {key} |-> content[k]]

\* What load_activity may find in the transformed file: the output of a
\* transform, a JSON array, the empty object, and objects that lack one of
\* the arrays load_data requires.
LoadInputs ==
    {Transform(TinySpill), [json |-> "array"], <<>>}
    \cup {Without(Transform(TinySpill), key) : key \in RequiredArrays}

\* The workflow stands before load, extract and transform having returned,
\* with any of the inputs in the transformed file.
LoadInit ==
    /\ source = EmptySource
    /\ run = 1
    /\ pc = "load"
    /\ status = [a \in Activities |->
                    IF a \in {"extract", "transform"} THEN "ok" ELSE "none"]
    /\ hist = [a \in Activities |->
                    IF a \in {"extract", "transform"} THEN <<"none">> ELSE <<>>]
    /\ raw_path = 1
    /\ transformed_path = 1
    /\ outcome = "none"
    /\ error = NoError
    /\ rawFile = <<TinySpill>>
    /\ transformedFile \in {<<content>> : content \in LoadInputs}
    /\ db = EmptyDb
    /\ tx = <<>>
    /\ loadPc = "none"
    /\ dbAtRun = EmptyDb
    /\ sourceAtRun = EmptySource
    /\ dbAtLoad = EmptyDb
    /\ dbAtAttempt = EmptyDb
    /\ prev = NoRun
    /\ deleteFailed = FALSE
    /\ fetch = NoFetch

LoadNext ==
    \/ StartLoad
    \/ LoadRejects
    \/ LoadKeyError
    \/ LoadUpserts
    \/ LoadCommit
    \/ LoadRecordRun
    \/ LoadReturn
    \/ LoadFails
    \/ StartCleanup
    \/ EndCleanup

LoadSpec == LoadInit /\ [][LoadNext]_vars

\* ------------------------------------ extract_activity, request by request
workflowVars ==
    <<source, run, pc, status, hist, raw_path, transformed_path, outcome, error,
      rawFile, transformedFile, db, tx, loadPc, dbAtRun, sourceAtRun, dbAtLoad,
      dbAtAttempt, prev, deleteFailed>>

\* More users than the pool has workers for: one page more than
\* MaxWorkers after page 1.
PagedSource ==
    [EmptySource EXCEPT
        !.users = [k \in 1..(PageSize * (MaxWorkers + 1) + 1) |-> User(k)]]

\* One chat whose messages fill two pages.
LongChatSource ==
    [EmptySource EXCEPT
        !.chats = <<Chat(10, "group")>>,
        !.messages = [k \in 1..(PageSize + 1) |-> Message(1, 10, 210, "text")]]

FetchSources == Sources \cup {PagedSource, LongChatSource}

\* What the attempt walks: the six endpoints, then the chats of chat_ids.
Targets(src) ==
    LET ids == ChatIds(Tag("chats", src.chats))
    IN [k \in 1..(Len(Endpoints) + Len(ids)) |->
            IF k <= Len(Endpoints)
            THEN [resource |-> Endpoints[k], rows |-> Rows(src, k)]
            ELSE [resource |-> "chat_messages",
                  rows |-> ChatMessages(src, ids[k - Len(Endpoints)])]]

\* An attempt of extract is in progress and has sent no request yet.
FetchInit ==
    /\ source \in FetchSources
    /\ run = 1
    /\ pc = "extract"
    /\ status = [a \in Activities |-> IF a = "extract" THEN "running" ELSE "none"]
    /\ hist = [a \in Activities |-> <<>>]
    /\ raw_path = 0
    /\ transformed_path = 0
    /\ outcome = "none"
    /\ error = NoError
    /\ rawFile = <<>>
    /\ transformedFile = <<>>
    /\ db = EmptyDb
    /\ tx = <<>>
    /\ loadPc = "none"
    /\ dbAtRun = EmptyDb
    /\ sourceAtRun = source
    /\ dbAtLoad = EmptyDb
    /\ dbAtAttempt = EmptyDb
    /\ prev = NoRun
    /\ deleteFailed = FALSE
    /\ fetch = [NoFetch EXCEPT !.phase = "start"]

\* A fault: a pool that starts a thread for every page submitted.
PoolHasFreeWorkerAlways(inflight) == TRUE

\* ThreadPoolExecutor(max_workers=max_workers): a page submitted is started
\* only by a worker that is not fetching another.
PoolHasFreeWorker(inflight) == Cardinality(inflight) < MaxWorkers

\* The loop goes on to the next endpoint or chat; after the last, the
\* attempt returns, or raises for a spill with no record.
Advance(f) ==
    IF f.target < Len(Targets(source))
    THEN [f EXCEPT !.phase = "idle", !.target = @ + 1]
    ELSE [f EXCEPT !.phase = IF ExtractValidation(Len(f.lines)) = "ok"
                             THEN "returned" ELSE "raised"]

\* session.get(f"{api_base}/health") by the thread of the activity.
RequestHealth ==
    /\ fetch.phase = "start"
    /\ fetch' = [fetch EXCEPT !.phase = "health",
                              !.inflight = {[target |-> 0, page |-> 0]}]
    /\ UNCHANGED workflowVars

\* The health request is answered: with 200 the file is opened and the loop
\* starts, else the attempt raises.
HealthAnswered ==
    /\ fetch.phase = "health"
    /\ \E health \in HealthOutcomes :
          fetch' = [fetch EXCEPT !.inflight = {},
                                 !.phase = IF HealthCheck(health) = "ok"
                                           THEN "idle" ELSE "raised",
                                 !.target = 1]
    /\ UNCHANGED workflowVars

\* The request for page 1 of the endpoint or chat, by the thread of the
\* activity.
RequestPageOne ==
    /\ fetch.phase = "idle"
    /\ fetch' = [fetch EXCEPT !.phase = "page1",
                              !.inflight = {[target |-> fetch.target, page |-> 1]}]
    /\ UNCHANGED workflowVars

\* Page 1 is answered: its items are written, and the later pages, if any,
\* are submitted to a new pool.
PageOneAnswered ==
    /\ fetch.phase = "page1"
    /\ LET t == Targets(source)[fetch.target]
           wrote == [fetch EXCEPT
                        !.inflight = {},
                        !.lines = @ \o Tag(t.resource, PageItems(t.rows, 1)),
                        !.writers = IF PageItems(t.rows, 1) = <<>> THEN @
                                    ELSE @ \cup {"activity"}]
       IN fetch' = IF TotalPages(t.rows) > 1
                   THEN [wrote EXCEPT !.phase = "pool",
                                      !.queued = 2..TotalPages(t.rows)]
                   ELSE Advance(wrote)
    /\ UNCHANGED workflowVars

\* How a request fails: the answer carries an error status, or session.get
\* raises.
RequestFailures == {"status", "network"}

\* Page 1 fails: the attempt raises, except for an error status in the
\* sweep, where the loop goes on to the next chat.
PageOneFails ==
    /\ fetch.phase = "page1"
    /\ \E failure \in RequestFailures :
          fetch' = IF fetch.target <= Len(Endpoints) \/ failure = "network"
                   THEN [fetch EXCEPT !.inflight = {}, !.phase = "raised"]
                   ELSE Advance([fetch EXCEPT !.inflight = {}])
    /\ UNCHANGED workflowVars

\* A worker of the pool starts fetch_page for a page submitted; it does so
\* as well while the with-block waits for the pool after an error.
WorkerTakes ==
    /\ fetch.phase \in {"pool", "draining"}
    /\ PoolHasFreeWorker(fetch.inflight)
    /\ \E p \in fetch.queued :
          fetch' = [fetch EXCEPT !.queued = @ \ {p},
                                 !.inflight = @ \cup {[target |-> fetch.target,
                                                       page |-> p]}]
    /\ UNCHANGED workflowVars

\* fetch_page returns in its worker: the future is done.
WorkerReturns ==
    /\ fetch.phase \in {"pool", "draining"}
    /\ \E r \in fetch.inflight :
          fetch' = [fetch EXCEPT !.inflight = @ \ {r}, !.done = @ \cup {r.page}]
    /\ UNCHANGED workflowVars

\* as_completed hands a page over to the thread of the activity, which
\* writes its items; after the last page the pool is shut down and the loop
\* goes on.
CollectorWrites ==
    /\ fetch.phase = "pool"
    /\ \E p \in fetch.done :
          LET t == Targets(source)[fetch.target]
              wrote == [fetch EXCEPT
                           !.done = @ \ {p},
                           !.lines = @ \o Tag(t.resource, PageItems(t.rows, p)),
                           !.writers = @ \cup {"activity"}]
          IN fetch' = IF fetch.queued = {} /\ fetch.inflight = {} /\ fetch.done = {p}
                      THEN Advance(wrote) ELSE wrote
    /\ UNCHANGED workflowVars

\* The page handed over has failed: the thread of the activity raises,
\* except for an error status in the sweep, and the with-block waits until
\* the pool has fetched every page submitted.
CollectorRaises ==
    /\ fetch.phase = "pool"
    /\ \E p \in fetch.done, failure \in RequestFailures :
          /\ fetch.target <= Len(Endpoints) \/ failure = "network"
          /\ fetch' = [fetch EXCEPT !.done = @ \ {p}, !.phase = "draining"]
    /\ UNCHANGED workflowVars

\* The page handed over in the sweep carries an error status: it is left
\* out and the collection goes on.
CollectorSkips ==
    /\ fetch.phase = "pool"
    /\ fetch.target > Len(Endpoints)
    /\ \E p \in fetch.done :
          LET skipped == [fetch EXCEPT !.done = @ \ {p}]
          IN fetch' = IF fetch.queued = {} /\ fetch.inflight = {} /\ fetch.done = {p}
                      THEN Advance(skipped) ELSE skipped
    /\ UNCHANGED workflowVars

\* The pool has fetched every page: the exception leaves the with-block and
\* the activity.
PoolDrained ==
    /\ fetch.phase = "draining"
    /\ fetch.queued = {}
    /\ fetch.inflight = {}
    /\ fetch' = [fetch EXCEPT !.phase = "raised", !.done = {}]
    /\ UNCHANGED workflowVars

FetchNext ==
    \/ RequestHealth
    \/ HealthAnswered
    \/ RequestPageOne
    \/ PageOneAnswered
    \/ PageOneFails
    \/ WorkerTakes
    \/ WorkerReturns
    \/ CollectorWrites
    \/ CollectorRaises
    \/ CollectorSkips
    \/ PoolDrained

FetchSpec == FetchInit /\ [][FetchNext]_vars

\* ------------------------------------------------------------- claims
Stages == {"extract", "transform", "load"}
Running(a) == status[a] = "running"
Ended == pc = "done"

\* The attempts of activity a started so far in the run.
Attempts(a) == Len(hist[a]) + (IF Running(a) THEN 1 ELSE 0)

\* The errors an activity raises with non_retryable=True.
NonRetryableErrors == {"unhealthy", "no_data", "output_empty"}

\* The attempt of a that ended with an error among errs was the last attempt
\* of a in the run.
NotRetriedAfter(a, errs) ==
    \A k \in DOMAIN hist[a] :
        hist[a][k] \in errs => k = Len(hist[a]) /\ status[a] = "failed"

\* C1: transform is started only once extract has returned successfully,
\* load only once transform has returned successfully, the run returns
\* "completed" only once load has returned successfully, and at no time are
\* two of extract, transform and load in progress.
C1_StrictSerialSequence ==
    /\ status["transform"] # "none" => status["extract"] = "ok"
    /\ status["load"] # "none" => status["transform"] = "ok"
    /\ outcome = "completed" => status["load"] = "ok"
    /\ Cardinality({a \in Stages : Running(a)}) <= 1

\* A run in which load is in progress after a retry of transform.
C1_Witness ==
    /\ Running("load")
    /\ Len(hist["extract"]) = 1
    /\ Len(hist["transform"]) = 2

\* C2: once a run has ended, and no deletion failed, neither the raw spill
\* nor the transformed file of the run is on disk.
C2_NoSpillFileRemains ==
    (Ended /\ ~deleteFailed) => rawFile = <<>> /\ transformedFile = <<>>

\* C3: an attempt of extract whose health check failed, by an error status
\* or by a request error, is not followed by another attempt; no later
\* activity starts and the workflow fails.
C3_HealthFailureNotRetried ==
    /\ NotRetriedAfter("extract", {"unhealthy", "health_request_error"})
    /\ (status["extract"] = "failed" /\ error.error \in {"unhealthy", "health_request_error"})
          => /\ status["transform"] = "none"
             /\ status["load"] = "none"
             /\ outcome = "failed"

AttemptsBounded ==
    /\ \A a \in Stages : Attempts(a) <= MaxAttempts
    /\ Attempts("cleanup") <= CleanupMaxAttempts
    /\ outcome = "completed" => status["load"] = "ok"
    /\ outcome = "failed" =>
          /\ error.activity \in Stages
          /\ status[error.activity] = "failed"
          /\ error.error = hist[error.activity][Len(hist[error.activity])]
          /\ \/ Len(hist[error.activity]) = MaxAttempts
             \/ error.error \in NonRetryableErrors

\* C5: with the attempt bounds above, every run that starts ends, completed
\* or failed with the activity's error.
C5_RunEnds ==
    /\ []AttemptsBounded
    /\ (pc = "extract") ~> (Ended /\ outcome \in {"completed", "failed"})

\* A run that failed once load had used up its three attempts.
C5_Witness ==
    /\ Ended
    /\ outcome = "failed"
    /\ error.activity = "load"
    /\ Len(hist["load"]) = MaxAttempts

\* The first attempt of extract ended, on an empty source, with /health
\* answering 200 and no request failing.
EmptySourceExtracted ==
    /\ source = EmptySource
    /\ hist["extract"] # <<>>
    /\ hist["extract"][1] \notin
          {"unhealthy", "health_request_error", "page1_error", "page_error"}

\* C6 as amended: for an empty source extract fails after one attempt with
\* the non-retryable "no data" error, transform never starts, the workflow
\* fails, and no etl_runs row is written.
C6_EmptySourceFailsExtract ==
    EmptySourceExtracted =>
        /\ hist["extract"] = <<"no_data">>
        /\ status["extract"] = "failed"
        /\ status["transform"] = "none"
        /\ status["load"] = "none"
        /\ outcome = "failed"
        /\ error = [activity |-> "extract", error |-> "no_data"]
        /\ db["etl_runs"] = dbAtRun["etl_runs"]

\* A run on the empty source that has ended.
C6_Witness == EmptySourceExtracted /\ Ended

\* C6 as stated: for an empty source extract succeeds, transform then fails
\* with the non-retryable "output empty" error, the workflow fails, and no
\* etl_runs row is written.
C6_EmptySourceFailsTransform ==
    EmptySourceExtracted =>
        /\ status["extract"] = "ok"
        /\ Ended =>
              /\ outcome = "failed"
              /\ error = [activity |-> "transform", error |-> "output_empty"]
              /\ db["etl_runs"] = dbAtRun["etl_runs"]

\* C7: a run that completes on the source the run before it completed on
\* leaves every upserted table with the rows it had after that run.
C7_RerunKeepsUpsertedTables ==
    (Ended /\ outcome = "completed" /\ prev.completed /\ prev.source = sourceAtRun)
        => Upserted(db) = prev.tables

\* C8: a run that ends completed has added exactly one row to
\* marketplace_statistics, a run that ends failed none, and the rows the
\* table held when the run started are as they were.
C8_OneRowPerCompletedRun ==
    Ended =>
        /\ Len(db["marketplace_statistics"]) =
              Len(dbAtRun["marketplace_statistics"])
                 + (IF outcome = "completed" THEN 1 ELSE 0)
        /\ SubSeq(db["marketplace_statistics"], 1,
                  Len(dbAtRun["marketplace_statistics"]))
              = dbAtRun["marketplace_statistics"]

\* The aggregate tables and marketplace_statistics of a database.
Analytics(d) == [t \in DOMAIN d \ {"etl_runs"} |-> d[t]]

\* C9: once load_activity has returned, after however many interrupted
\* attempts, every analytics table is as one uninterrupted load_data on
\* the same transformed input would have left it.
C9_LoadRetriesSafe ==
    (status["load"] = "ok" /\ transformedFile # <<>>)
        => Analytics(db) = Analytics(ApplyUpserts(dbAtLoad, transformedFile[1]))

\* What one load_data makes visible when all of its writes are.
AllWrites(d, out) == RecordRun(ApplyUpserts(d, out))

\* C10: the writes of one load_data invocation are visible all or none:
\* while it runs the database shows none or all of them, after it failed
\* none, and after it returned normally all.
C10_LoadAllOrNothing ==
    transformedFile # <<>> =>
        /\ loadPc # "none" =>
              db \in {dbAtAttempt, AllWrites(dbAtAttempt, transformedFile[1])}
        /\ (status["load"] \in {"retrying", "failed"}) => db = dbAtAttempt
        /\ status["load"] = "ok" => db = AllWrites(dbAtAttempt, transformedFile[1])

\* C11: a run that ends failed has added no row to etl_runs, however many
\* load attempts it made and however they ended.
C11_FailedRunRecordsNoRun ==
    (Ended /\ outcome = "failed") => db["etl_runs"] = dbAtRun["etl_runs"]

\* C12: a load_data invocation that is about to return normally has added
\* exactly one etl_runs row, with status "success".
C12_ReturnedLoadRecordedOneRun ==
    loadPc = "close" =>
        db["etl_runs"] = Append(dbAtAttempt["etl_runs"], [status |-> "success"])

\* The spills that differ from lines by the exchange of two neighbouring
\* records of one resource; such exchanges generate every reordering of the
\* records inside the resource blocks.
NeighbourSwaps(lines) ==
    {[k \in DOMAIN lines |->
        IF k = i THEN lines[i + 1] ELSE IF k = i + 1 THEN lines[i] ELSE lines[k]] :
     i \in {j \in 1..(Len(lines) - 1) : lines[j].resource = lines[j + 1].resource}}

\* C13: a spill that holds the records of the spill written, in another
\* order inside a resource block, is transformed to the same aggregates,
\* top_sellers included.
C13_TransformOrderIndependent ==
    rawFile # <<>> =>
        \A shuffled \in NeighbourSwaps(rawFile[1]) :
            Transform(shuffled) = Transform(rawFile[1])

\* The messages of the global messages resource that user u sent.
MessagesBy(src, u) ==
    Cardinality({k \in DOMAIN src.messages : src.messages[k].sender_id = u})

\* The rows of a set of user_statistics rows that agree with the source: one
\* row per user listed, with the number of messages the user sent.
CountsMessagesSent(rows, src) ==
    \A k \in DOMAIN src.users :
        /\ Cardinality({r \in rows : r.user_id = src.users[k].id}) = 1
        /\ \A r \in rows :
              r.user_id = src.users[k].id
                  => r.total_messages_sent = MessagesBy(src, src.users[k].id)

\* C14: for every user listed by the source, total_messages_sent, in the
\* output of a transform that succeeded and in user_statistics once load has
\* returned, is the number of the global messages the user sent, whatever
\* the per-chat sweep wrote again as chat_messages.
C14_TotalMessagesSent ==
    /\ (status["transform"] = "ok" /\ transformedFile # <<>>)
          => CountsMessagesSent(transformedFile[1].user_statistics, sourceAtRun)
    /\ status["load"] = "ok"
          => CountsMessagesSent(db["user_statistics"], sourceAtRun)

\* Load has returned for a spill in which the sweep wrote messages again, one
\* of the users having sent three messages.
C14_Witness ==
    /\ status["load"] = "ok"
    /\ rawFile # <<>>
    /\ \E k \in DOMAIN rawFile[1] : rawFile[1][k].resource = "chat_messages"
    /\ \E k \in DOMAIN sourceAtRun.users :
          MessagesBy(sourceAtRun, sourceAtRun.users[k].id) = 3

\* The sender_id values of the global messages of chat c.
SendersIn(src, c) ==
    {src.messages[k].sender_id :
        k \in {j \in DOMAIN src.messages : src.messages[j].chat_id = c}}

\* The rows of a set of chat_statistics rows that agree with the source: one
\* row per chat listed, unique_senders the number of distinct senders of
\* the chat's messages, and the first message not after the last.
CountsUniqueSenders(rows, src) ==
    \A k \in DOMAIN src.chats :
        /\ Cardinality({r \in rows : r.chat_id = src.chats[k].id}) = 1
        /\ \A r \in rows :
              r.chat_id = src.chats[k].id =>
                  /\ r.unique_senders = Cardinality(SendersIn(src, src.chats[k].id))
                  /\ (r.first_message_date # Null /\ r.last_message_date # Null)
                        => r.first_message_date <= r.last_message_date

\* C15: for every chat listed by the source, unique_senders in the output
\* of a transform that succeeded is the number of distinct sender_id values
\* among the chat's messages, and first_message_date, when both dates are
\* set, is not after last_message_date.
C15_UniqueSendersAndDates ==
    (status["transform"] = "ok" /\ transformedFile # <<>>)
        => CountsUniqueSenders(transformedFile[1].chat_statistics, sourceAtRun)

\* A transform that succeeded on a chat with three messages of two senders,
\* its first message before its last.
C15_Witness ==
    /\ status["transform"] = "ok"
    /\ transformedFile # <<>>
    /\ \E r \in transformedFile[1].chat_statistics :
          /\ r.total_messages = 3
          /\ r.unique_senders = 2
          /\ r.first_message_date < r.last_message_date

\* C16: after every completed run, whatever runs came before and whatever
\* the source served them, the top_sellers table holds at most 10 rows.
C16_TopSellersTableAtMostTen ==
    (Ended /\ outcome = "completed") => Cardinality(db["top_sellers"]) <= TopN

RECURSIVE SumSold(_)
\* The sum of price over the items whose status is "sold".
SumSold(items) ==
    IF items = <<>> THEN 0
    ELSE (IF Head(items).status = "sold" /\ Head(items).price # Null
          THEN Head(items).price ELSE 0) + SumSold(Tail(items))

\* C17: the total_revenue a transform emits is the sum of price over
\* exactly the marketplace_items records whose status is "sold".
C17_TotalRevenueOfSold ==
    transformedFile # <<>> =>
        transformedFile[1].marketplace_statistics.total_revenue
            = SumSold(sourceAtRun.marketplace_items)

\* A transform of one sold, one active and one cancelled item, each with a
\* price.
C17_Witness ==
    /\ transformedFile # <<>>
    /\ transformedFile[1].marketplace_statistics.sold_items = 1
    /\ transformedFile[1].marketplace_statistics.active_items = 1
    /\ transformedFile[1].marketplace_statistics.cancelled_items = 1
    /\ transformedFile[1].marketplace_statistics.total_revenue = 10000

\* The aggregate tables keyed by a category, a seller or a chat of the
\* marketplace.
KeyedAggregates ==
    {"category_statistics", "seller_category_stats", "seller_statistics",
     "top_sellers", "chat_marketplace_stats"}
NoNullKey(d) ==
    \A t \in KeyedAggregates : \A r \in d[t] : r[PrimaryKey[t]] # Null

C19_CleanupNeverChangesOutcome ==
    Ended =>
        IF status["load"] = "ok"
        THEN outcome = "completed" /\ error = NoError
        ELSE /\ outcome = "failed"
             /\ \E a \in Stages :
                   /\ status[a] = "failed"
                   /\ error = [activity |-> a, error |-> hist[a][Len(hist[a])]]

\* A run whose load succeeded and whose cleanup activity failed with a file
\* left behind.
C19_Witness ==
    /\ Ended
    /\ status["load"] = "ok"
    /\ status["cleanup"] = "failed"
    /\ deleteFailed
    /\ outcome = "completed"

\* A run whose load failed for good and whose cleanup activity failed too.
C19_FailedRunWitness ==
    /\ Ended
    /\ status["load"] = "failed"
    /\ status["cleanup"] = "failed"
    /\ outcome = "failed"
    /\ error.activity = "load"

\* C20: an attempt of extract in which the request for page 1 of a global
\* resource failed is not followed by another attempt of extract in the run,
\* and the workflow fails without starting transform or load.
C20_PageOneFailureNotRetried ==
    /\ NotRetriedAfter("extract", {"page1_error"})
    /\ (\E k \in DOMAIN hist["extract"] : hist["extract"][k] = "page1_error")
          => (status["transform"] = "none" /\ status["load"] = "none"
              /\ outcome # "completed")

\* The number of places of a sequence that hold x.
CountIn(seq, x) == Cardinality({k \in DOMAIN seq : seq[k] = x})

\* The data of the records of one resource in a spill, in file order.
WrittenFor(lines, resource) ==
    LET recs == SelectSeq(lines, LAMBDA l : l.resource = resource)
    IN [k \in DOMAIN recs |-> recs[k].data]

\* C21: when extract has returned, the spill holds, for each of the six
\* global resources, every item of every page exactly once; and an attempt
\* that failed on a page after the first is retried unless it was the
\* third attempt.
C21_EveryPageWrittenOnce ==
    /\ (status["extract"] = "ok" /\ rawFile # <<>>) =>
          \A i \in DOMAIN Endpoints :
             LET rows == sourceAtRun[Endpoints[i]]
                 written == WrittenFor(rawFile[1], Endpoints[i])
             IN /\ Len(written) = Len(rows)
                /\ \A k \in DOMAIN rows :
                      CountIn(written, rows[k]) = CountIn(rows, rows[k])
    /\ \A k \in DOMAIN hist["extract"] :
          (hist["extract"][k] = "page_error" /\ k < MaxAttempts) =>
              (k < Len(hist["extract"]) \/ status["extract"] \in {"retrying", "running"})
    /\ \A k \in DOMAIN hist["extract"] :
          (hist["extract"][k] = "page_error" /\ k = Len(hist["extract"])) =>
              status["extract"] \in {"retrying", "running", "failed"}

\* Extract returned over three pages of /marketplace after an attempt that
\* failed on a later page.
C21_Witness ==
    /\ status["extract"] = "ok"
    /\ rawFile # <<>>
    /\ sourceAtRun = ManySellersSource
    /\ hist["extract"] = <<"page_error", "none">>
    /\ Len(WrittenFor(rawFile[1], "marketplace_items")) = TopN + 1

\* C22: no failure of a request of the per-chat sweep, by an error status
\* or by a network error, fails extract_activity: no attempt of extract ends
\* with an error of the sweep.
C22_SweepFailureNeverFailsExtract ==
    \A k \in DOMAIN hist["extract"] : hist["extract"][k] # "sweep_request_error"

\* The content of a transformed file that is not a JSON object, is the
\* empty object, or lacks an array load_data requires.
Malformed(content) ==
    \/ "json" \in DOMAIN content
    \/ ~(RequiredArrays \subseteq DOMAIN content)

\* C23: an attempt of load that read malformed content ends with an error
\* that is not retried: it is the last attempt of load in the run and the
\* workflow fails; and no row is written to the analytics tables.
C23_MalformedInputRejectedOnce ==
    (transformedFile # <<>> /\ Malformed(transformedFile[1])) =>
        /\ db = EmptyDb
        /\ NotRetriedAfter("load", {"transformed_missing", "key_error"})
        /\ (\E k \in DOMAIN hist["load"] :
                hist["load"][k] \in {"transformed_missing", "key_error"})
              => outcome = "failed"

\* C24: every chat_messages record of the spill is counted like a messages
\* record: the total_messages emitted for a chat is the number of messages
\* and chat_messages records of that chat.
C24_SweepRecordsFeedAggregators ==
    (status["transform"] = "ok" /\ rawFile # <<>> /\ transformedFile # <<>>) =>
        \A r \in transformedFile[1].chat_statistics :
            r.total_messages =
                Cardinality({k \in DOMAIN rawFile[1] :
                    /\ rawFile[1][k].resource \in {"messages", "chat_messages"}
                    /\ rawFile[1][k].data.chat_id = r.chat_id})

\* The items of a source that carry category c, and those of them with
\* status st.
ItemsOf(src, c) ==
    {k \in DOMAIN src.marketplace_items : src.marketplace_items[k].category_id = c}
ItemsOfStatus(src, c, st) ==
    {k \in ItemsOf(src, c) : src.marketplace_items[k].status = st}

\* C25: the transform emits exactly one category_statistics row for every
\* non-null category_id carried by an item, with the number of that
\* category's items in total and per status, and no row for a null
\* category_id.
C25_CategoryStatisticsPerCategory ==
    transformedFile # <<>> =>
        /\ \A k \in DOMAIN sourceAtRun.marketplace_items :
              LET c == sourceAtRun.marketplace_items[k].category_id
              IN c # Null =>
                   \E r \in transformedFile[1].category_statistics :
                      /\ r.category_id = c
                      /\ r.total_items = Cardinality(ItemsOf(sourceAtRun, c))
                      /\ r.active_items = Cardinality(ItemsOfStatus(sourceAtRun, c, "active"))
                      /\ r.sold_items = Cardinality(ItemsOfStatus(sourceAtRun, c, "sold"))
                      /\ r.cancelled_items =
                            Cardinality(ItemsOfStatus(sourceAtRun, c, "cancelled"))
                      /\ \A q \in transformedFile[1].category_statistics :
                            q.category_id = c => q = r
        /\ \A r \in transformedFile[1].category_statistics : r.category_id # Null

\* The messages records of a spill, and the type each is to count under.
MessageRecords(lines) ==
    {k \in DOMAIN lines : LineKind(lines[k]) = "record" /\ lines[k].resource = "messages"}
CountsAsText(d) ==
    "message_type" \notin DOMAIN d \/ d.message_type \in {"text", NullType}

RECURSIVE SumOfCounts(_)
SumOfCounts(rows) ==
    IF rows = {} THEN 0
    ELSE LET r == CHOOSE x \in rows : TRUE
         IN r.total_count + SumOfCounts(rows \ {r})

\* C26: no attempt of transform fails over the message types, and in the
\* output every messages record is counted once, a record with no type or
\* a null type under "text": the counts sum to the number of messages
\* records, no row has a null type, and the row of "text" counts the
\* records typed "text", untyped or null-typed.
C26_MessagesCountedByType ==
    /\ \A k \in DOMAIN hist["transform"] : hist["transform"][k] # "type_error"
    /\ transformedFile # <<>> =>
          LET lines == rawFile[1]
              summary == transformedFile[1].message_type_summary
              asText == {k \in MessageRecords(lines) : CountsAsText(lines[k].data)}
          IN /\ SumOfCounts(summary) = Cardinality(MessageRecords(lines))
             /\ \A r \in summary : r.message_type # NullType
             /\ asText # {} =>
                   \E r \in summary :
                      r.message_type = "text" /\ r.total_count = Cardinality(asText)

\* The records of a spill, without the lines that are no {resource, data}
\* record.
WellFormedOnly(lines) == SelectSeq(lines, LAMBDA l : LineKind(l) = "record")

\* C27: no attempt of transform fails because of a line that is no JSON or
\* no JSON object, and what an attempt writes is what it writes for the
\* same file without those lines.
C27_LenientScan ==
    /\ \A k \in DOMAIN hist["transform"] : hist["transform"][k] # "attribute_error"
    /\ \A k \in DOMAIN hist["transform"] :
          hist["transform"][k] = TransformAttempt(WellFormedOnly(rawFile[1])).error
    /\ transformedFile # <<>> =>
          transformedFile[1] = TransformAttempt(WellFormedOnly(rawFile[1])).out

\* The order in which the resources are to appear in a spill.
SpillOrder ==
    <<"users", "chats", "messages", "marketplace_items", "categories", "sellers",
      "chat_messages">>
Rank(resource) == CHOOSE i \in DOMAIN SpillOrder : SpillOrder[i] = resource

\* C28: in the spill of any attempt of extract, returned or failed, no
\* record of an earlier resource follows a record of a later one (no line
\* is followed by a line of an earlier resource), and a
\* chat_messages record is written only once every record of the six
\* global resources is.
C28_SpillGroupedByResource ==
    rawFile # <<>> =>
        LET lines == rawFile[1]
        IN /\ \A k \in 1..(Len(lines) - 1) :
                 Rank(lines[k].resource) <= Rank(lines[k + 1].resource)
           /\ (\E k \in DOMAIN lines : lines[k].resource = "chat_messages") =>
                 \A r \in DOMAIN sourceAtRun :
                    Len(WrittenFor(lines, r)) = Len(sourceAtRun[r])

\* A spill that holds records of all seven resources.
C28_Witness ==
    /\ rawFile # <<>>
    /\ \A i \in DOMAIN SpillOrder : Len(WrittenFor(rawFile[1], SpillOrder[i])) > 0

C29_RequestsInFlightBounded ==
    /\ Cardinality(fetch.inflight) <= MaxWorkers
    /\ \A r \in fetch.inflight : r.page <= 1 => fetch.inflight = {r}
    /\ \A r, q \in fetch.inflight : r.target = q.target
    /\ fetch.writers \subseteq {"activity"}

\* Every worker of the pool is fetching a page while another page waits.
C29_Witness ==
    /\ fetch.phase = "pool"
    /\ Cardinality(fetch.inflight) = MaxWorkers
    /\ fetch.queued # {}
    /\ fetch.lines # <<>>

====
